---- MODULE Spec2Model ----
(***************************************************************************)
(* fs_history: the versioned path-history store.                           *)
(*                                                                         *)
(* The store is two relations, Paths and Versions (models.py), written by  *)
(* Database.insert_path, Database.insert_version and                       *)
(* Database.upsert_version (database.py).  Every call opens its own        *)
(* Session; a Session sends its pending INSERT when commit() flushes, so   *)
(* each commit() is one atomic step against the committed relations and    *)
(* each SELECT reads the relations as committed at the moment it runs.     *)
(* upsert_version is four such steps and callers may interleave there.     *)
(***************************************************************************)
EXTENDS Integers, Sequences, FiniteSets, TLC

\* ------------------------------------------------------------- bounds
NProcs == 2      \* callers that may be inside upsert_version at once
MaxCalls == 3    \* calls made in one behaviour
MaxPathId == 2   \* insert_version is tried with path_id in 1..MaxPathId
MaxVerNo == 2    \* insert_version is tried with version_no in 0..MaxVerNo
NGens == 1       \* listings (select_* generators) that may be alive at once

Procs == 1..NProcs
Gens == 1..NGens
\* the (parent, name) pairs the calls are made with: two names under one
\* parent, and one of those names under another parent
Targets == {<<"/a", "f">>, <<"/a", "g">>, <<"/b", "f">>}

\* ------------------------------------------------------------- state
VARIABLES
    paths,       \* relation Paths: rows [id, parent, name]
    versions,    \* relation Versions: rows [path_id, version_no, attrs]
    nextId,      \* the value the backend generates for the next Paths.id
    fkEnforced,  \* does the backend enforce Versions.path_id -> Paths.id:
                 \* "on" or "off", "unknown" until an INSERT depends on it
    pc,          \* per caller: where it stands inside upsert_version
    arg,         \* per caller: <<parent, name, attrs>> of its upsert_version
    result,      \* per caller: local `result`, <<>> for None, else <<row>>
    version,     \* per caller: local `version`, <<>> before it is built
    newpath,     \* per caller: <<row>> once this call has committed a Path
    start,       \* per caller: number of calls completed when it began
    log,         \* completed calls, in order of completion
    gen,         \* per listing: the generator a select_* call returned
    sessions     \* the Sessions that are open, by the call that acquired them

vars == <<paths, versions, nextId, fkEnforced, pc, arg, result, version,
          newpath, start, log, gen, sessions>>

store == <<paths, versions, nextId, fkEnforced>>
locals == <<pc, arg, result, version, newpath, start>>

\* ------------------------------------------------------------- rows
\* get_path: a PathModel not yet persisted has no id; the id is generated
\* by the INSERT, so the row is built with the id the backend hands out.
get_path(id, parent, name) == [id |-> id, parent |-> parent, name |-> name]

get_version(path_id, version_no, attrs) ==
    [path_id |-> path_id, version_no |-> version_no, attrs |-> attrs]

\* An INSERT that replaces the relation's rows instead of adding to them.
AddRowReplacing(rows, row) == {row}

\* session.add(model); session.commit(): the INSERT adds one row.
AddRow(rows, row) == rows \cup {row}

\* ------------------------------------------------------------- constraints
\* Paths declared without the unique constraint.
PathUniqueOkMissing(rows, parent, name) == TRUE

\* UniqueConstraint('parent', 'name') on Paths.
PathUniqueOk(rows, parent, name) ==
    ~ \E r \in rows : r.parent = parent /\ r.name = name

\* Versions declared without the composite primary key.
VersionKeyOkMissing(rows, v) == TRUE

\* PrimaryKeyConstraint('path_id', 'version_no') on Versions.
VersionKeyOk(rows, v) ==
    ~ \E w \in rows : w.path_id = v.path_id /\ w.version_no = v.version_no

\* ForeignKey("Paths.id") on Versions.path_id.  The engine is built from a
\* caller-supplied URL with no further setup, so whether the declared key is
\* enforced is the backend's choice (fk).
ForeignKeyOk(prows, fk, v) ==
    fk = "on" => \E r \in prows : r.id = v.path_id

\* The backend's choice shows the first time a Version is inserted whose
\* path_id matches no Path, and stays as it showed.
ForeignKeyModes(prows, fk, v) ==
    IF fk = "unknown" /\ ~ \E r \in prows : r.id = v.path_id
    THEN {"on", "off"}
    ELSE {fk}

\* ------------------------------------------------------------- queries
\* The lookup comparing the parent column with the name.
UpsertWhereWrongColumn(r, parent, name) == r.parent = name

\* The WHERE clause of upsert_version's lookup.  The source joins the two
\* comparisons with Python's `and`, which first takes the truth value of
\* `PathModel.parent == str(path.parent)`; that truth value is False (the
\* column and the bound value are different objects), so `and` yields its
\* left operand and the name comparison never enters the statement.
UpsertWhere(r, parent, name) == r.parent = parent

\* .first() of the lookup: <<>> (None) when no row matches, else one of the
\* matching rows; the statement has no ORDER BY, so any of them.
UpsertLookupResults(rows, parent, name) ==
    LET m == {r \in rows : UpsertWhere(r, parent, name)}
    IN  IF m = {} THEN {<<>>} ELSE {<<r>> : r \in m}

SetMax(S) == CHOOSE x \in S : \A y \in S : y <= x

\* func.max(version_no) filtered by path_id: <<>> (None) when the path has
\* no version, else <<max>>.
MaxVersionNo(rows, path_id) ==
    LET ns == {w.version_no : w \in {x \in rows : x.path_id = path_id}}
    IN  IF ns = {} THEN <<>> ELSE <<SetMax(ns)>>

\* latest + 2
NextVersionNoSkip(latest) == latest + 2

\* latest + 1
NextVersionNo(latest) == latest + 1

\* ------------------------------------------------------------- select_*
\* An optional argument is <<>> when it is None and <<x>> when it is x.
\* the filter values the listings are called with
ParentFilters == {<<>>, <<"">>, <<"/a">>}
NameFilters == {<<>>, <<"">>, <<"f">>}
PathIdFilters == {<<>>, <<0>>, <<1>>}
VersionNoFilters == {<<>>, <<0>>, <<1>>}

\* `if parent:` / `if name:`: None and the empty string are both false.
StrGiven(f) == f # <<>> /\ f[1] # ""

\* `if path_id:` / `if version_no:`: None and 0 are both false.
IntGiven(f) == f # <<>> /\ f[1] # 0

\* The rows of select_paths' statement: a .where() is added for each
\* argument whose truth value is true.
SelectPathsRows(prows, parent, name) ==
    {r \in prows : /\ StrGiven(parent) => r.parent = parent[1]
                   /\ StrGiven(name) => r.name = name[1]}

\* The rows of select_versions' statement.
SelectVersionsRows(vrows, path_id, version_no) ==
    {v \in vrows : /\ IntGiven(path_id) => v.path_id = path_id[1]
                   /\ IntGiven(version_no) => v.version_no = version_no[1]}

\* The rows of select_all's statement: the inner join of Paths and Versions
\* on PathModel.id == VersionModel.path_id.
SelectAllRows(prows, vrows) ==
    {rec \in prows \X vrows : rec[1].id = rec[2].path_id}

\* The statement run against a store that misses the newest Path.
StatementRowsStale(kind, f1, f2, prows, vrows) ==
    CASE kind = "select_paths" ->
           SelectPathsRows({r \in prows : \E q \in prows : q.id > r.id}, f1, f2)
      [] kind = "select_versions" -> SelectVersionsRows(vrows, f1, f2)
      [] kind = "select_all" -> SelectAllRows(prows, vrows)

\* session.scalars(stmt) / session.execute(stmt): the rows of the statement
\* the select_* call built, read from the store as it is when this runs.
StatementRows(kind, f1, f2, prows, vrows) ==
    CASE kind = "select_paths" -> SelectPathsRows(prows, f1, f2)
      [] kind = "select_versions" -> SelectVersionsRows(vrows, f1, f2)
      [] kind = "select_all" -> SelectAllRows(prows, vrows)

\* No statement has an ORDER BY: the rows come in an order of the backend's
\* choosing, each row once.
Orderings(S) ==
    {s \in [1..Cardinality(S) -> S] :
       \A i, j \in 1..Cardinality(S) : i # j => s[i] # s[j]}

\* ------------------------------------------------------------- the log
Call(op, a, status, ret, np, st) ==
    [op |-> op, arg |-> a, status |-> status, ret |-> ret, newpath |-> np,
     start |-> st]

InFlight == {p \in Procs : pc[p] # "idle"}
CallsMade == Len(log) + Cardinality(InFlight)

\* attrs is an opaque document that the code stores and never inspects:
\* every call is made with a document of its own, numbered by the call.
Attrs == {CallsMade + 1}

UpsertSession(p) == <<"upsert_version", p>>

\* leaving the `with self.acquire() as session` block closes the session
Idle(p) ==
    /\ sessions' = sessions \ {UpsertSession(p)}
    /\ pc' = [pc EXCEPT ![p] = "idle"]
    /\ arg' = [arg EXCEPT ![p] = <<>>]
    /\ result' = [result EXCEPT ![p] = <<>>]
    /\ version' = [version EXCEPT ![p] = <<>>]
    /\ newpath' = [newpath EXCEPT ![p] = <<>>]
    /\ start' = [start EXCEPT ![p] = 0]

Finish(p, status, ret) ==
    /\ log' = Append(log, Call("upsert_version", arg[p], status, ret,
                               newpath[p], start[p]))
    /\ Idle(p)

\* ------------------------------------------------------------- listings
\* A slot with no generator alive.
NoListing ==
    [state |-> "none", kind |-> "", f1 |-> <<>>, f2 |-> <<>>, rows |-> <<>>,
     pos |-> 0, start |-> 0]

\* ------------------------------------------------------------- Init
Init ==
    /\ paths = {}
    /\ versions = {}
    /\ nextId = 1
    /\ fkEnforced = "unknown"
    /\ pc = [p \in Procs |-> "idle"]
    /\ arg = [p \in Procs |-> <<>>]
    /\ result = [p \in Procs |-> <<>>]
    /\ version = [p \in Procs |-> <<>>]
    /\ newpath = [p \in Procs |-> <<>>]
    /\ start = [p \in Procs |-> 0]
    /\ log = <<>>
    /\ gen = [g \in Gens |-> NoListing]
    /\ sessions = {}

\* ------------------------------------------------------------- insert_path
\* insert_path -> _commit_model: one INSERT and its commit.
InsertPath(parent, name) ==
    /\ CallsMade < MaxCalls
    /\ IF PathUniqueOk(paths, parent, name)
       THEN /\ paths' = AddRow(paths, get_path(nextId, parent, name))
            /\ nextId' = nextId + 1
            /\ log' = Append(log, Call("insert_path", <<parent, name>>, "ok",
                               <<get_path(nextId, parent, name)>>, <<>>,
                               Len(log)))
       ELSE /\ paths' = paths
            \* a backend may or may not consume the generated id of a
            \* rejected row
            /\ nextId' \in {nextId, nextId + 1}
            /\ log' = Append(log, Call("insert_path", <<parent, name>>,
                               "IntegrityError", <<>>, <<>>, Len(log)))
    /\ UNCHANGED <<versions, fkEnforced, locals, gen, sessions>>

\* ------------------------------------------------------------- insert_version
\* insert_version -> _commit_model: one INSERT and its commit.
InsertVersion(path_id, version_no, attrs) ==
    LET v == get_version(path_id, version_no, attrs) IN
    /\ CallsMade < MaxCalls
    /\ fkEnforced' \in ForeignKeyModes(paths, fkEnforced, v)
    /\ IF VersionKeyOk(versions, v) /\ ForeignKeyOk(paths, fkEnforced', v)
       THEN /\ versions' = AddRow(versions, v)
            /\ log' = Append(log, Call("insert_version",
                               <<path_id, version_no, attrs>>, "ok", <<v>>,
                               <<>>, Len(log)))
       ELSE /\ versions' = versions
            /\ log' = Append(log, Call("insert_version",
                               <<path_id, version_no, attrs>>,
                               "IntegrityError", <<>>, <<>>, Len(log)))
    /\ UNCHANGED <<paths, nextId, locals, gen, sessions>>

\* ------------------------------------------------------------- upsert_version
\* lines 171-174: open the session, run the lookup, take .first().
UpsertLookup(p, parent, name, attrs) ==
    /\ pc[p] = "idle"
    \* callers are interchangeable: a new call takes the lowest free slot
    /\ \A q \in Procs : q < p => pc[q] # "idle"
    /\ CallsMade < MaxCalls
    /\ \E res \in UpsertLookupResults(paths, parent, name) :
         /\ result' = [result EXCEPT ![p] = res]
         /\ pc' = [pc EXCEPT ![p] = IF res = <<>> THEN "addPath" ELSE "readMax"]
    /\ arg' = [arg EXCEPT ![p] = <<parent, name, attrs>>]
    /\ start' = [start EXCEPT ![p] = Len(log)]
    /\ sessions' = sessions \cup {UpsertSession(p)}
    /\ UNCHANGED <<store, version, newpath, log, gen>>

\* lines 175-178: `not result`: add the new Path, commit it, build version 1.
UpsertAddPath(p) ==
    /\ pc[p] = "addPath"
    /\ IF PathUniqueOk(paths, arg[p][1], arg[p][2])
       THEN LET row == get_path(nextId, arg[p][1], arg[p][2]) IN
            /\ paths' = AddRow(paths, row)
            /\ nextId' = nextId + 1
            /\ result' = [result EXCEPT ![p] = <<row>>]
            /\ newpath' = [newpath EXCEPT ![p] = <<row>>]
            /\ version' = [version EXCEPT ![p] =
                             <<get_version(row.id, 1, arg[p][3])>>]
            /\ pc' = [pc EXCEPT ![p] = "addVersion"]
            /\ UNCHANGED <<arg, start, log, sessions>>
       ELSE /\ paths' = paths
            /\ nextId' \in {nextId, nextId + 1}
            /\ Finish(p, "IntegrityError", <<>>)
    /\ UNCHANGED <<versions, fkEnforced, gen>>

\* lines 180-181: the Path exists: read the maximum, build version latest+1.
\* A None maximum makes `latest+1` raise TypeError.
UpsertReadMax(p) ==
    /\ pc[p] = "readMax"
    /\ LET latest == MaxVersionNo(versions, result[p][1].id) IN
       IF latest = <<>>
       THEN Finish(p, "TypeError", <<>>)
       ELSE /\ version' = [version EXCEPT ![p] =
                  <<get_version(result[p][1].id, NextVersionNo(latest[1]),
                                arg[p][3])>>]
            /\ pc' = [pc EXCEPT ![p] = "addVersion"]
            /\ UNCHANGED <<arg, result, newpath, start, log, sessions>>
    /\ UNCHANGED <<store, gen>>

\* lines 183-185: add the Version, commit, return (result, version).
UpsertAddVersion(p) ==
    /\ pc[p] = "addVersion"
    /\ fkEnforced' \in ForeignKeyModes(paths, fkEnforced, version[p][1])
    /\ IF /\ VersionKeyOk(versions, version[p][1])
          /\ ForeignKeyOk(paths, fkEnforced', version[p][1])
       THEN /\ versions' = AddRow(versions, version[p][1])
            /\ Finish(p, "ok", <<result[p][1], version[p][1]>>)
       ELSE /\ versions' = versions
            /\ Finish(p, "IntegrityError", <<>>)
    /\ UNCHANGED <<paths, nextId, gen>>

\* The caller is interrupted inside the `with` block: the session closes and
\* what it has not committed is dropped.
UpsertAbandon(p) ==
    /\ pc[p] # "idle"
    /\ Finish(p, "abandoned", <<>>)
    /\ UNCHANGED <<store, gen>>

\* ------------------------------------------------------------- listings
GenSession(g) == <<"select", g>>

\* scalars(stmt) / _select_gen(stmt) are generator functions: calling one
\* builds the generator and runs none of its body.
Listing(g, kind, f1, f2) ==
    /\ gen[g].state = "none"
    /\ gen' = [gen EXCEPT ![g] =
                 [state |-> "created", kind |-> kind, f1 |-> f1, f2 |-> f2,
                  rows |-> <<>>, pos |-> 0, start |-> Len(log)]]
    /\ UNCHANGED <<store, locals, log, sessions>>

select_paths(g, parent, name) == Listing(g, "select_paths", parent, name)

select_versions(g, path_id, version_no) ==
    Listing(g, "select_versions", path_id, version_no)

select_all(g) == Listing(g, "select_all", <<>>, <<>>)

\* The first record is requested: the body starts, opens the session, runs
\* the statement and yields the first row; with no row the loop and the
\* `with` block end at once.
GenFirst(g) ==
    /\ gen[g].state = "created"
    /\ \E rows \in Orderings(StatementRows(gen[g].kind, gen[g].f1, gen[g].f2,
                                           paths, versions)) :
         IF rows = <<>>
         THEN /\ gen' = [gen EXCEPT ![g] = NoListing]
              /\ UNCHANGED sessions
         ELSE /\ gen' = [gen EXCEPT ![g].state = "open", ![g].rows = rows,
                                    ![g].pos = 1]
              /\ sessions' = sessions \cup {GenSession(g)}
    /\ UNCHANGED <<store, locals, log>>

\* A further record is requested: the next row is yielded, or, past the last
\* row, the loop ends and the `with` block closes the session.
GenNext(g) ==
    /\ gen[g].state = "open"
    /\ IF gen[g].pos < Len(gen[g].rows)
       THEN /\ gen' = [gen EXCEPT ![g].pos = gen[g].pos + 1]
            /\ UNCHANGED sessions
       ELSE /\ gen' = [gen EXCEPT ![g] = NoListing]
            /\ sessions' = sessions \ {GenSession(g)}
    /\ UNCHANGED <<store, locals, log>>

\* The caller requests no further record.  The generator stays suspended
\* where it is: inside the `with` block if it has yielded a row.
GenDrop(g) ==
    /\ gen[g].state \in {"created", "open"}
    /\ gen' = [gen EXCEPT ![g] = [NoListing EXCEPT !.state = "dropped"]]
    /\ UNCHANGED <<store, locals, log, sessions>>

\* The runtime finalises a generator nothing refers to any more: the
\* suspended body is closed and its `with` block closes the session.
GenFinalize(g) ==
    /\ gen[g].state = "dropped"
    /\ gen' = [gen EXCEPT ![g] = NoListing]
    /\ sessions' = sessions \ {GenSession(g)}
    /\ UNCHANGED <<store, locals, log>>

\* ------------------------------------------------------------- specifications
Next ==
    \/ \E t \in Targets : InsertPath(t[1], t[2])
    \/ \E path_id \in 1..MaxPathId, version_no \in 0..MaxVerNo, attrs \in Attrs :
         InsertVersion(path_id, version_no, attrs)
    \/ \E p \in Procs, t \in Targets, attrs \in Attrs :
         UpsertLookup(p, t[1], t[2], attrs)
    \/ \E p \in Procs : UpsertAddPath(p)
    \/ \E p \in Procs : UpsertReadMax(p)
    \/ \E p \in Procs : UpsertAddVersion(p)
    \/ \E p \in Procs : UpsertAbandon(p)

Spec == Init /\ [][Next]_vars

\* A store that is written through upsert_version only.
NextUpsert ==
    \/ \E p \in Procs, t \in Targets, attrs \in Attrs :
         UpsertLookup(p, t[1], t[2], attrs)
    \/ \E p \in Procs : UpsertAddPath(p)
    \/ \E p \in Procs : UpsertReadMax(p)
    \/ \E p \in Procs : UpsertAddVersion(p)
    \/ \E p \in Procs : UpsertAbandon(p)

SpecUpsert == Init /\ [][NextUpsert]_vars

\* The store as two concurrent upsert_version calls for ("/a", "f") and
\* ("/a", "g") leave an empty store when both run their lookup before either
\* commits: two Paths under one parent, each with its version 1.
SeedPaths == {get_path(1, "/a", "f"), get_path(2, "/a", "g")}
SeedVersions == {get_version(1, 1, 1), get_version(2, 1, 2)}

InitSeeded ==
    /\ paths = SeedPaths
    /\ versions = SeedVersions
    /\ nextId = 3
    /\ fkEnforced = "unknown"
    /\ pc = [p \in Procs |-> "idle"]
    /\ arg = [p \in Procs |-> <<>>]
    /\ result = [p \in Procs |-> <<>>]
    /\ version = [p \in Procs |-> <<>>]
    /\ newpath = [p \in Procs |-> <<>>]
    /\ start = [p \in Procs |-> 0]
    /\ log = <<>>
    /\ gen = [g \in Gens |-> NoListing]
    /\ sessions = {}

\* upsert_version calls against that store.
SpecSeeded == InitSeeded /\ [][NextUpsert]_vars

\* The steps of a listing after the select_* call that made it.
GenStep(g) == GenFirst(g) \/ GenNext(g) \/ GenDrop(g) \/ GenFinalize(g)

\* A store written through insert_path and insert_version and read through
\* the three listings.
NextQuery ==
    \/ \E t \in Targets : InsertPath(t[1], t[2])
    \/ \E i \in 1..MaxPathId, n \in 0..MaxVerNo, attrs \in Attrs :
         InsertVersion(i, n, attrs)
    \/ \E g \in Gens, parent \in ParentFilters, name \in NameFilters :
         select_paths(g, parent, name)
    \/ \E g \in Gens, path_id \in PathIdFilters, version_no \in VersionNoFilters :
         select_versions(g, path_id, version_no)
    \/ \E g \in Gens : select_all(g)
    \/ \E g \in Gens : GenStep(g)

SpecQuery == Init /\ [][NextQuery]_vars

\* Every writing operation, and the three listings called without a filter.
NextAll ==
    \/ Next
    \/ \E g \in Gens : select_paths(g, <<>>, <<>>)
    \/ \E g \in Gens : select_versions(g, <<>>, <<>>)
    \/ \E g \in Gens : select_all(g)
    \/ \E g \in Gens : GenStep(g)

SpecAll == Init /\ [][NextAll]_vars

\* ------------------------------------------------------------- helpers
PathIds == {r.id : r \in paths}
VersionsOf(path_id) == {v \in versions : v.path_id = path_id}
VersionNos(path_id) == {v.version_no : v \in VersionsOf(path_id)}
AllIdle == InFlight = {}
Upserts == {i \in 1..Len(log) : log[i].op = "upsert_version"}
OkUpserts == {i \in Upserts : log[i].status = "ok"}

\* ------------------------------------------------------------- claims
Last(s) == s[Len(s)]
Completes == Len(log') = Len(log) + 1
SameKey(v, w) == v.path_id = w.path_id /\ v.version_no = w.version_no
\* the Version a successful call stored
RetVersion(c) == IF c.op = "upsert_version" THEN c.ret[2] ELSE c.ret[1]

\* C1: N concurrent upsert_version calls on the same (parent, name) against
\* a fresh store all succeed and leave exactly the versions 1..N of that path.
C1_ConcurrentUpsertsAllSucceed ==
    (/\ AllIdle
     /\ Len(log) >= 1
     /\ \A i \in 1..Len(log) :
          /\ log[i].status # "abandoned"
          /\ log[i].arg[1] = log[1].arg[1]
          /\ log[i].arg[2] = log[1].arg[2])
    => /\ \A i \in 1..Len(log) : log[i].status = "ok"
       /\ \E r \in paths :
            /\ r.parent = log[1].arg[1]
            /\ r.name = log[1].arg[2]
            /\ VersionNos(r.id) = 1..Len(log)
            /\ Cardinality(VersionsOf(r.id)) = Len(log)

\* C2: in a store written only by upsert_version, every stored Version
\* belongs to a Path, the version numbers of every Path are exactly 1..k
\* with one record each, and there is one Version per successful call.
C2_VersionsContiguous ==
    /\ \A v \in versions : v.path_id \in PathIds
    /\ \A r \in paths :
         VersionNos(r.id) = 1..Cardinality(VersionsOf(r.id))
    /\ Cardinality(versions) = Cardinality(OkUpserts)

\* C2 witness: a Path holds two versions and some upsert_version has failed.
C2_Witness ==
    /\ \E r \in paths : Cardinality(VersionsOf(r.id)) >= 2
    /\ \E i \in Upserts : log[i].status = "IntegrityError"

\* C3: a successful upsert_version returns the Path whose parent and name
\* are the arguments, that Path is stored, and the returned Version is
\* stored under that Path's id.
C3_ReturnsRequestedPath ==
    \A i \in OkUpserts :
      /\ log[i].ret[1].parent = log[i].arg[1]
      /\ log[i].ret[1].name = log[i].arg[2]
      /\ log[i].ret[1] \in paths
      /\ log[i].ret[2].path_id = log[i].ret[1].id
      /\ log[i].ret[2] \in versions

\* C4: upsert_version is atomic: a call that did not succeed has committed
\* no Path, and no Path committed by an upsert_version, finished or still
\* running, is without a Version.
C4_UpsertAtomic ==
    /\ \A i \in Upserts :
         /\ log[i].status # "ok" => log[i].newpath = <<>>
         /\ log[i].newpath # <<>> => VersionsOf(log[i].newpath[1].id) # {}
    /\ \A p \in Procs :
         newpath[p] # <<>> => VersionsOf(newpath[p][1].id) # {}

\* C5: at most one Path per (parent, name) in every state, and an
\* insert_path whose (parent, name) is already stored fails with a
\* constraint violation and leaves Paths and Versions as they were.
C5_PathUnique ==
    /\ [](\A r, s \in paths :
            (r.parent = s.parent /\ r.name = s.name) => r = s)
    /\ [][(/\ Completes
           /\ Last(log').op = "insert_path"
           /\ \E r \in paths : /\ r.parent = Last(log').arg[1]
                               /\ r.name = Last(log').arg[2])
          => /\ Last(log').status = "IntegrityError"
             /\ paths' = paths
             /\ versions' = versions]_vars

\* C5 witness: an insert_path was rejected while an upsert_version that
\* committed the same (parent, name) was still running.
C5_Witness ==
    \E i \in 1..Len(log), p \in Procs :
      /\ log[i].op = "insert_path"
      /\ log[i].status = "IntegrityError"
      /\ newpath[p] # <<>>
      /\ newpath[p][1].parent = log[i].arg[1]
      /\ newpath[p][1].name = log[i].arg[2]

\* C6: no two Versions share (path_id, version_no) in any state, and an
\* insert_version or upsert_version whose (path_id, version_no) is already
\* stored fails with a constraint violation and stores nothing.
C6_VersionKeyUnique ==
    /\ [](\A v, w \in versions : SameKey(v, w) => v = w)
    /\ [][(/\ Completes
           /\ Last(log').op = "insert_version"
           /\ \E w \in versions : /\ w.path_id = Last(log').arg[1]
                                  /\ w.version_no = Last(log').arg[2])
          => /\ Last(log').status = "IntegrityError"
             /\ versions' = versions]_vars
    /\ [][\A p \in Procs :
            (/\ pc[p] = "addVersion"
             /\ pc'[p] = "idle"
             /\ Last(log').status # "abandoned"
             /\ \E w \in versions : SameKey(w, version[p][1]))
            => /\ Last(log').status = "IntegrityError"
               /\ versions' = versions]_vars

\* C6 witness: after one upsert_version two more ran concurrently on the
\* same parent; one stored version 2 and the other was rejected.
C6_Witness ==
    /\ Len(log) = 3
    /\ \A i \in 1..3 : log[i].op = "upsert_version"
    /\ \A i \in 1..3 : log[i].arg[1] = log[1].arg[1]
    /\ log[1].status = "ok"
    /\ log[2].status = "ok"
    /\ log[2].ret[2].version_no = 2
    /\ log[2].start = 1
    /\ log[3].start = 1
    /\ log[3].status = "IntegrityError"

\* C7: two upsert_version calls for the same path, one after the other on a
\* fresh store: both succeed, there is one Path X, both calls return it, and
\* the store holds exactly (X, 1, attrs1) and (X, 2, attrs2).
C7_SequentialUpserts ==
    (/\ AllIdle
     /\ Len(log) = 2
     /\ log[1].op = "upsert_version"
     /\ log[2].op = "upsert_version"
     /\ log[1].status # "abandoned"
     /\ log[2].status # "abandoned"
     /\ log[2].start = 1
     /\ log[1].arg[1] = log[2].arg[1]
     /\ log[1].arg[2] = log[2].arg[2])
    => /\ log[1].status = "ok"
       /\ log[2].status = "ok"
       /\ paths = {log[1].ret[1]}
       /\ log[1].ret[1].parent = log[1].arg[1]
       /\ log[1].ret[1].name = log[1].arg[2]
       /\ log[2].ret[1] = log[1].ret[1]
       /\ log[1].ret[2] = get_version(log[1].ret[1].id, 1, log[1].arg[3])
       /\ log[2].ret[2] = get_version(log[1].ret[1].id, 2, log[2].arg[3])
       /\ versions = {log[1].ret[2], log[2].ret[2]}

\* C7 witness: the two sequential calls have run.
C7_Witness ==
    /\ AllIdle
    /\ Len(log) = 2
    /\ log[1].status = "ok"
    /\ log[2].status = "ok"
    /\ log[2].start = 1
    /\ log[1].arg[1] = log[2].arg[1]
    /\ log[1].arg[2] = log[2].arg[2]
    /\ Cardinality(versions) = 2

\* C8: two concurrent upsert_version calls on different (parent, name)
\* pairs against a fresh store both succeed, and each path receives exactly
\* its own version 1.
C8_DistinctPathsIndependent ==
    (/\ AllIdle
     /\ Len(log) = 2
     /\ log[1].op = "upsert_version"
     /\ log[2].op = "upsert_version"
     /\ log[1].status # "abandoned"
     /\ log[2].status # "abandoned"
     /\ log[1].start = 0
     /\ log[2].start = 0
     /\ <<log[1].arg[1], log[1].arg[2]>> # <<log[2].arg[1], log[2].arg[2]>>)
    => \A i \in 1..2 :
         /\ log[i].status = "ok"
         /\ \E r \in paths :
              /\ r.parent = log[i].arg[1]
              /\ r.name = log[i].arg[2]
              /\ VersionsOf(r.id) = {get_version(r.id, 1, log[i].arg[3])}

\* C9: for every stored Path the stored version numbers are exactly 1..k, and
\* of two Versions stored for one path the later one has the greater number.
C9_ContiguousUnderAllWrites ==
    /\ \A id \in PathIds :
         VersionNos(id) = 1..Cardinality(VersionsOf(id))
    /\ \A i, j \in 1..Len(log) :
         (/\ i < j
          /\ log[i].op # "insert_path"
          /\ log[j].op # "insert_path"
          /\ log[i].status = "ok"
          /\ log[j].status = "ok"
          /\ RetVersion(log[i]).path_id = RetVersion(log[j]).path_id)
         => RetVersion(log[i]).version_no < RetVersion(log[j]).version_no

\* C10: every Version's path_id is the id of a stored Path, and an
\* insert_version whose path_id matches no Path fails with NotFound.
C10_NoOrphanVersion ==
    /\ \A v \in versions : v.path_id \in PathIds
    /\ \A i \in 1..Len(log) :
         (log[i].op = "insert_version" /\ log[i].arg[1] \notin PathIds)
         => log[i].status = "NotFound"

\* C13: insert_path creates a Path with no version; an upsert_version
\* for that path, made afterwards with no other call running, succeeds and
\* stores version 1 under that Path.
C13_UpsertOnVersionlessPath ==
    (/\ AllIdle
     /\ Len(log) = 2
     /\ log[1].op = "insert_path"
     /\ log[1].status = "ok"
     /\ log[2].op = "upsert_version"
     /\ log[2].status # "abandoned"
     /\ log[2].start = 1
     /\ log[2].arg[1] = log[1].arg[1]
     /\ log[2].arg[2] = log[1].arg[2])
    => /\ log[2].status = "ok"
       /\ log[2].ret[2] = get_version(log[1].ret[1].id, 1, log[2].arg[3])
       /\ log[2].ret[2] \in versions

\* C15: a step of an upsert_version call for (parent, name) leaves every
\* other Path stored and leaves the Versions of every other Path as they
\* were.
C15_UpsertFrame ==
    [][\A p \in Procs :
         (pc[p] # "idle" /\ pc'[p] # pc[p])
         => \A r \in paths :
              ~ (r.parent = arg[p][1] /\ r.name = arg[p][2])
              => /\ r \in paths'
                 /\ {v \in versions' : v.path_id = r.id} = VersionsOf(r.id)]_vars

Executes(g) == gen[g].state = "created" /\ gen'[g].state \in {"open", "none"}
\* the rows the statement of g handed back in that step
Fetched(g) == {gen'[g].rows[i] : i \in 1..Len(gen'[g].rows)}

\* C11: select_paths(parent, name) returns exactly the stored Paths whose
\* parent equals every supplied parent and whose name equals every supplied
\* name, the empty string included; with both supplied, at most one Path.
C11_SelectPathsExact ==
    [][\A g \in Gens :
         (Executes(g) /\ gen[g].kind = "select_paths")
         => /\ Fetched(g) =
                 {r \in paths : /\ gen[g].f1 # <<>> => r.parent = gen[g].f1[1]
                                /\ gen[g].f2 # <<>> => r.name = gen[g].f2[1]}
            /\ Len(gen'[g].rows) = Cardinality(Fetched(g))
            /\ (gen[g].f1 # <<>> /\ gen[g].f2 # <<>>) => Len(gen'[g].rows) <= 1]_vars

\* C18: select_versions(path_id, version_no) returns exactly the stored
\* Versions whose path_id equals every supplied path_id and whose version_no
\* equals every supplied version_no, 0 included.
C18_SelectVersionsExact ==
    [][\A g \in Gens :
         (Executes(g) /\ gen[g].kind = "select_versions")
         => /\ Fetched(g) =
                 {v \in versions :
                    /\ gen[g].f1 # <<>> => v.path_id = gen[g].f1[1]
                    /\ gen[g].f2 # <<>> => v.version_no = gen[g].f2[1]}
            /\ Len(gen'[g].rows) = Cardinality(Fetched(g))]_vars

\* C12: select_all returns one (Path, Version) record per stored Version
\* whose Path is stored, with the attrs as stored, the records of one Path
\* together and in ascending version_no.
C12_SelectAllJoinedInOrder ==
    [][\A g \in Gens :
         (Executes(g) /\ gen[g].kind = "select_all")
         => LET rows == gen'[g].rows
            IN  /\ Fetched(g) =
                     {<<r, v>> : r \in paths, v \in versions} \cap
                     {rec \in paths \X versions : rec[2].path_id = rec[1].id}
                /\ Len(rows) = Cardinality(Fetched(g))
                /\ \A i, j \in 1..Len(rows) :
                     (i < j /\ rows[i][1] = rows[j][1])
                     => /\ rows[i][2].version_no < rows[j][2].version_no
                        /\ \A k \in i..j : rows[k][1] = rows[i][1]]_vars


\* C16: no step of insert_path, insert_version, upsert_version or a listing
\* removes or changes a stored Path or Version: both sets only grow, and a
\* step of a listing leaves them as they were.
C16_AppendOnly ==
    [][/\ paths \subseteq paths'
       /\ versions \subseteq versions'
       /\ gen' # gen => (paths' = paths /\ versions' = versions)]_vars

\* C16 witness: insert_path, insert_version and upsert_version have each
\* stored a row and a listing is being read.
C16_Witness ==
    /\ \A op \in {"insert_path", "insert_version", "upsert_version"} :
         \E i \in 1..Len(log) : log[i].op = op /\ log[i].status = "ok"
    /\ \E g \in Gens : gen[g].state = "open"

\* C17: a session is open only while the call that acquired it is running:
\* none is left by an upsert_version that has returned, raised or been
\* abandoned, nor by a listing that is exhausted or that its caller has
\* stopped reading.
C17_SessionsReleased ==
    /\ \A p \in Procs : UpsertSession(p) \in sessions => pc[p] # "idle"
    /\ \A g \in Gens : GenSession(g) \in sessions => gen[g].state = "open"

\* C19: calling select_* reads nothing and opens no session; the statement
\* runs when the first record is requested and returns the rows stored at
\* that moment, whatever was stored when the call was made.
C19_ExecutesAtFirstRequest ==
    [][\A g \in Gens :
         /\ (gen[g].state = "none" /\ gen'[g].state = "created")
            => /\ gen'[g].rows = <<>>
               /\ sessions' = sessions
         /\ (Executes(g) /\ gen[g].kind = "select_paths")
            => Fetched(g) =
                 {r \in paths :
                    /\ gen[g].f1 \notin {<<>>, <<"">>} => r.parent = gen[g].f1[1]
                    /\ gen[g].f2 \notin {<<>>, <<"">>} => r.name = gen[g].f2[1]}
         /\ (Executes(g) /\ gen[g].kind = "select_versions")
            => Fetched(g) =
                 {v \in versions :
                    /\ gen[g].f1 \notin {<<>>, <<0>>} => v.path_id = gen[g].f1[1]
                    /\ gen[g].f2 \notin {<<>>, <<0>>} => v.version_no = gen[g].f2[1]}
         /\ (Executes(g) /\ gen[g].kind = "select_all")
            => Fetched(g) =
                 {rec \in paths \X versions : rec[2].path_id = rec[1].id}]_vars

\* C19 witness: a listing has yielded a Path that an insert_path stored
\* after the select_paths call was made.
C19_Witness ==
    \E g \in Gens :
      /\ gen[g].state = "open"
      /\ gen[g].kind = "select_paths"
      /\ \E i \in 1..Len(log) :
           /\ i > gen[g].start
           /\ log[i].op = "insert_path"
           /\ log[i].status = "ok"
           /\ \E k \in 1..gen[g].pos : gen[g].rows[k] = log[i].ret[1]

============================================================================
